---- MODULE Spec2Model ----
(***************************************************************************)
(* Trade analytics and behavioural pattern detection of TradePT.           *)
(*                                                                         *)
(* Two implementations live in the repository:                             *)
(*   app/ai_services/analysis.py        module functions over objects      *)
(*   app/services/analysis/analysis.py  AnalysisService over dicts         *)
(* Both are modelled.  Money amounts are integers, timestamps are whole    *)
(* minutes counted from datetime.min, and every float the code computes is *)
(* an exact rational [n, d] in lowest terms.                               *)
(***************************************************************************)
EXTENDS Integers, Sequences, FiniteSets, TLC

VARIABLES impl, trades, calls, raised, win_rate, stats, patterns,
          duration, formatted,
          sessions, session_objects, pending, last_op

(* the argument and the result of format_duration *)
duration_vars == <<duration, formatted>>

(* TradingChatBot._sessions, the ChatSession objects it has created, the   *)
(* chat calls waiting for the model's reply, and the chatbot's last call   *)
(* with what it returned                                                   *)
chat_vars == <<sessions, session_objects, pending, last_op>>

vars == <<impl, trades, calls, raised, win_rate, stats, patterns,
          duration_vars, chat_vars>>

-----------------------------------------------------------------------------
(* Optional values: a missing attribute / dict key is the empty tuple, an  *)
(* attribute / key that is there and holds None is Null.                   *)

Absent == <<>>

Null == <<0, 0>>

Some(v) == <<v>>

(* there, and not None *)
Has(x) == Len(x) = 1

IsNull(x) == Len(x) = 2

Val(x) == x[1]

-----------------------------------------------------------------------------
(* Exact rationals standing for Python floats.                             *)

Abs(n) == IF n < 0 THEN -n ELSE n

RECURSIVE GCD(_, _)
GCD(a, b) == IF b = 0 THEN a ELSE GCD(b, a % b)

Frac(n, d) ==
    IF d = 0 THEN [n |-> IF n < 0 THEN -1 ELSE 1, d |-> 0]
    ELSE LET s == IF d < 0 THEN -1 ELSE 1
             g == GCD(Abs(n), Abs(d))
         IN  [n |-> (s * n) \div g, d |-> (s * d) \div g]

FInt(k) == [n |-> k, d |-> 1]

FInf == [n |-> 1, d |-> 0]

FLess(a, b) == a.n * b.d < b.n * a.d

FMin(a, b) == IF FLess(b, a) THEN b ELSE a

FSub(a, b) == IF a.d = 0 THEN a ELSE Frac(a.n * b.d - b.n * a.d, a.d * b.d)

FMul(a, b) == Frac(a.n * b.n, a.d * b.d)

FDiv(a, b) == Frac(a.n * b.d, a.d * b.n)

(* round(x, k decimals) and the "%.kf" format: nearest multiple of 1/scale, *)
(* ties to the even multiple.                                              *)
RoundInt(a, scale) ==
    LET twice == 2 * a.n * scale
        q     == twice \div (2 * a.d)
        r     == twice % (2 * a.d)
    IN  IF r < a.d THEN q
        ELSE IF r > a.d THEN q + 1
        ELSE IF q % 2 = 0 THEN q ELSE q + 1

RoundTo(a, scale) == Frac(RoundInt(a, scale), scale)

-----------------------------------------------------------------------------
(* Sequence helpers (Python built-ins sum, max, min, statistics.mean).     *)

RECURSIVE SumSeq(_)
SumSeq(s) == IF s = <<>> THEN 0 ELSE Head(s) + SumSeq(Tail(s))

RECURSIVE MaxSeq(_)
MaxSeq(s) ==
    IF Len(s) = 1 THEN s[1]
    ELSE LET m == MaxSeq(Tail(s)) IN IF m > s[1] THEN m ELSE s[1]

RECURSIVE MinSeq(_)
MinSeq(s) ==
    IF Len(s) = 1 THEN s[1]
    ELSE LET m == MinSeq(Tail(s)) IN IF m < s[1] THEN m ELSE s[1]

Mean(s) == Frac(SumSeq(s), Len(s))

IsPositive(x) == x > 0

IsNegative(x) == x < 0

-----------------------------------------------------------------------------
(* Time: whole minutes since datetime.min (midnight).                      *)

DatetimeMin == 0

MinutesPerHour == 60

HoursPerDay == 24

MinutesPerDay == MinutesPerHour * HoursPerDay

(* datetime.hour *)
HourOf(tm) == (tm \div MinutesPerHour) % HoursPerDay

(* timedelta.days: whole days, floored *)
DaysOf(delta) == delta \div MinutesPerDay

-----------------------------------------------------------------------------
(* app/ai_services/analysis.py: P/L and key readers.                       *)

(* getattr(t, 'profit_loss', 0) or 0 *)
profit_loss_or_0(t) == IF Has(t.profit_loss) THEN Val(t.profit_loss) ELSE 0

(* getattr(t, 'symbol', 'Unknown') *)
symbol_of(t) == IF Has(t.symbol) THEN Val(t.symbol) ELSE "Unknown"

(* getattr(t, 'contract_type', 'Unknown') / t.get('contract_type', 'Unknown') *)
contract_of(t) == IF Has(t.contract_type) THEN Val(t.contract_type) ELSE "Unknown"

(* getattr(t, 'purchase_time', datetime.min) / t.get('purchase_time', datetime.min) *)
purchase_time_or_min(t) ==
    IF Has(t.purchase_time) THEN Val(t.purchase_time) ELSE DatetimeMin

(* getattr(t, 'purchase_time', datetime.now()) / t.get('purchase_time', datetime.now()) *)
purchase_time_or_now(t, now) ==
    IF Has(t.purchase_time) THEN Val(t.purchase_time) ELSE now

-----------------------------------------------------------------------------
(* app/services/analysis/analysis.py: P/L and key readers.                 *)

(* t.get('sell_price', 0) - t.get('buy_price', 0) *)
sell_minus_buy(t) ==
    (IF Has(t.sell_price) THEN Val(t.sell_price) ELSE 0)
  - (IF Has(t.buy_price) THEN Val(t.buy_price) ELSE 0)

(* t.get('underlying_symbol', 'Unknown') *)
underlying_symbol_of(t) ==
    IF Has(t.underlying_symbol) THEN Val(t.underlying_symbol) ELSE "Unknown"

-----------------------------------------------------------------------------
(* The parts of calculate_statistics that both implementations share       *)
(* verbatim; they differ only in how a trade's P/L and symbol are read.    *)

(* mutant: a trade without both timestamps counts with duration 0 *)
Durations_open_as_zero(ts) ==
    [i \in 1..Len(ts) |->
        IF Has(ts[i].sell_time) /\ Has(ts[i].purchase_time)
        THEN Val(ts[i].sell_time) - Val(ts[i].purchase_time) ELSE 0]

(* for t in trades: if sell_time and purchase_time: durations.append(...)  *)
(* durations are kept in minutes; the division by 3600 s is in MeanHours   *)
Durations(ts) ==
    LET both == SelectSeq(ts, LAMBDA t : Has(t.sell_time) /\ Has(t.purchase_time))
    IN  [i \in 1..Len(both) |-> Val(both[i].sell_time) - Val(both[i].purchase_time)]

(* statistics.mean(durations) with each duration total_seconds() / 3600 *)
MeanHours(durs) == Frac(SumSeq(durs), MinutesPerHour * Len(durs))

(* symbol_counts[k] = symbol_counts.get(k, 0) + 1 *)
CountOf(keys, k) == Cardinality({i \in 1..Len(keys) : keys[i] = k})

(* mutant: ties go to the maximal key seen last *)
MostTraded_last(keys) ==
    LET best == MaxSeq([i \in 1..Len(keys) |-> CountOf(keys, keys[i])])
        last == CHOOSE i \in 1..Len(keys) :
                    /\ CountOf(keys, keys[i]) = best
                    /\ \A j \in (i + 1)..Len(keys) : CountOf(keys, keys[j]) < best
    IN  keys[last]

(* mutant: the first key of the dictionary is returned, whatever its count *)
MostTraded_first_key(keys) == keys[1]

(* max(counts, key=counts.get): dicts iterate in insertion order and max  *)
(* keeps the first maximal key, i.e. the maximal key seen first.           *)
MostTraded(keys) ==
    LET best == MaxSeq([i \in 1..Len(keys) |-> CountOf(keys, keys[i])])
        first == CHOOSE i \in 1..Len(keys) :
                    /\ CountOf(keys, keys[i]) = best
                    /\ \A j \in 1..(i - 1) : CountOf(keys, keys[j]) < best
    IN  keys[first]

(* mutant: the sentinel for "no data" is the empty string *)
EmptyStatistics_blank ==
    [total_trades |-> 0, winning_trades |-> 0, losing_trades |-> 0,
     win_rate |-> FInt(0), total_profit_loss |-> FInt(0),
     average_profit |-> FInt(0), average_loss |-> FInt(0),
     largest_win |-> FInt(0), largest_loss |-> FInt(0),
     average_trade_duration_hours |-> FInt(0),
     most_traded_symbol |-> "", most_traded_contract_type |-> ""]

(* the dictionary returned for an empty list *)
EmptyStatistics ==
    [total_trades |-> 0, winning_trades |-> 0, losing_trades |-> 0,
     win_rate |-> FInt(0), total_profit_loss |-> FInt(0),
     average_profit |-> FInt(0), average_loss |-> FInt(0),
     largest_win |-> FInt(0), largest_loss |-> FInt(0),
     average_trade_duration_hours |-> FInt(0),
     most_traded_symbol |-> "N/A", most_traded_contract_type |-> "N/A"]

(* the dictionary returned for a non-empty list, from the P/L of every     *)
(* trade (pls), the win rate and the two key lists                         *)
Statistics(ts, pls, rate, symbols, contracts) ==
    LET profits   == SelectSeq(pls, IsPositive)
        losses    == SelectSeq(pls, IsNegative)
        durations == Durations(ts)
    IN  [total_trades |-> Len(ts),
         winning_trades |-> Len(profits),
         losing_trades |-> Len(losses),
         win_rate |-> rate,
         total_profit_loss |-> RoundTo(FInt(SumSeq(pls)), 100),
         average_profit |->
             IF profits # <<>> THEN RoundTo(Mean(profits), 100) ELSE FInt(0),
         average_loss |->
             IF losses # <<>> THEN RoundTo(Mean(losses), 100) ELSE FInt(0),
         largest_win |->
             IF profits # <<>> THEN RoundTo(FInt(MaxSeq(profits)), 100) ELSE FInt(0),
         largest_loss |->
             IF losses # <<>> THEN RoundTo(FInt(MinSeq(losses)), 100) ELSE FInt(0),
         average_trade_duration_hours |->
             IF durations # <<>> THEN RoundTo(MeanHours(durations), 100) ELSE FInt(0),
         most_traded_symbol |->
             IF symbols # <<>> THEN MostTraded(symbols) ELSE "N/A",
         most_traded_contract_type |->
             IF contracts # <<>> THEN MostTraded(contracts) ELSE "N/A"]

-----------------------------------------------------------------------------
(* app/ai_services/analysis.py                                             *)

(* mutant: every trade that carries a profit_loss counts as a win *)
is_winning_if_present(t) == Has(t.profit_loss)

(* hasattr(t, 'profit_loss') and t.profit_loss and t.profit_loss > 0 *)
is_winning(t) ==
    Has(t.profit_loss) /\ Val(t.profit_loss) # 0 /\ Val(t.profit_loss) > 0

calculate_win_rate(ts) ==
    IF ts = <<>> THEN FInt(0)
    ELSE Frac(Len(SelectSeq(ts, is_winning)) * 100, Len(ts))

calculate_statistics(ts) ==
    IF ts = <<>> THEN EmptyStatistics
    ELSE Statistics(ts, [i \in 1..Len(ts) |-> profit_loss_or_0(ts[i])], calculate_win_rate(ts),
                    [i \in 1..Len(ts) |-> symbol_of(ts[i])], [i \in 1..Len(ts) |-> contract_of(ts[i])])

-----------------------------------------------------------------------------
(* app/services/analysis/analysis.py                                       *)

(* t.get('sell_price', 0) > t.get('buy_price', 0) *)
Svc_is_winning(t) ==
    (IF Has(t.sell_price) THEN Val(t.sell_price) ELSE 0)
  > (IF Has(t.buy_price) THEN Val(t.buy_price) ELSE 0)

Svc_calculate_win_rate(ts) ==
    IF ts = <<>> THEN FInt(0)
    ELSE Frac(Len(SelectSeq(ts, Svc_is_winning)) * 100, Len(ts))

Svc_calculate_statistics(ts) ==
    IF ts = <<>> THEN EmptyStatistics
    ELSE Statistics(ts, [i \in 1..Len(ts) |-> sell_minus_buy(ts[i])], Svc_calculate_win_rate(ts),
                    [i \in 1..Len(ts) |-> underlying_symbol_of(ts[i])], [i \in 1..Len(ts) |-> contract_of(ts[i])])

-----------------------------------------------------------------------------
(* TradingPattern values the detectors emit, and the rest of the enum.     *)

REVENGE_TRADING == "revenge_trading"

OVERTRADING == "overtrading"

CONSISTENT_TIMING == "consistent_timing"

RISK_ISSUES == "risk_issues"

TradingPattern ==
    {REVENGE_TRADING, OVERTRADING, "loss_chasing", CONSISTENT_TIMING,
     "position_sizing", "emotional_trading", RISK_ISSUES}

(* PatternDetectionResult; details keeps the message and the numbers       *)
(* formatted into it                                                       *)
PatternDetectionResult(p, det, conf, text, args) ==
    [pattern |-> p, detected |-> det, confidence |-> conf,
     details |-> [text |-> text, args |-> args]]

-----------------------------------------------------------------------------
(* sorted(trades, key=purchase_time or datetime.min): a stable sort, on a  *)
(* copy of the list.                                                       *)

RECURSIVE InsertByTime(_, _)
InsertByTime(sorted, t) ==
    IF sorted = <<>> THEN <<t>>
    ELSE LET last == sorted[Len(sorted)]
         IN  IF purchase_time_or_min(last) <= purchase_time_or_min(t)
             THEN Append(sorted, t)
             ELSE Append(InsertByTime(SubSeq(sorted, 1, Len(sorted) - 1), t), last)

(* mutant: the detectors run on the list in the caller's order *)
SortByPurchaseTime_unsorted(ts) == ts

RECURSIVE SortByPurchaseTime(_)
SortByPurchaseTime(ts) ==
    IF ts = <<>> THEN <<>>
    ELSE InsertByTime(SortByPurchaseTime(SubSeq(ts, 1, Len(ts) - 1)), ts[Len(ts)])

-----------------------------------------------------------------------------
(* Revenge trading.                                                        *)

MinRevengeTrades == 3

RapidMinutes == 30

ConsecutiveLossLimit == 3

(* mutant: the walk looks at the P/L of the current trade of each pair *)
RECURSIVE RevengeLoop_current(_, _, _, _, _, _)
RevengeLoop_current(pls, times, i, rapid, consecutive, maxcons) ==
    IF i > Len(pls) THEN [rapid |-> rapid, maxcons |-> maxcons]
    ELSE IF pls[i] < 0
         THEN LET c == consecutive + 1
                  m == IF c > maxcons THEN c ELSE maxcons
                  r == IF times[i] - times[i - 1] < RapidMinutes
                       THEN rapid + 1 ELSE rapid
              IN  RevengeLoop_current(pls, times, i + 1, r, c, m)
         ELSE RevengeLoop_current(pls, times, i + 1, rapid, 0, maxcons)

(* the loop "for i in range(1, len(trades))" from index i on, with the     *)
(* three counters it carries                                               *)
RECURSIVE RevengeLoop(_, _, _, _, _, _)
RevengeLoop(pls, times, i, rapid, consecutive, maxcons) ==
    IF i > Len(pls) THEN [rapid |-> rapid, maxcons |-> maxcons]
    ELSE IF pls[i - 1] < 0
         THEN LET c == consecutive + 1
                  m == IF c > maxcons THEN c ELSE maxcons
                  r == IF times[i] - times[i - 1] < RapidMinutes
                       THEN rapid + 1 ELSE rapid
              IN  RevengeLoop(pls, times, i + 1, r, c, m)
         ELSE RevengeLoop(pls, times, i + 1, rapid, 0, maxcons)

(* _detect_revenge_trading, given each trade's P/L as the caller reads it *)
RevengeTrading(pls, times) ==
    IF Len(pls) < MinRevengeTrades
    THEN PatternDetectionResult(REVENGE_TRADING, FALSE, FInt(0),
             "Insufficient data for analysis (need at least 3 trades)", <<>>)
    ELSE LET w     == RevengeLoop(pls, times, 2, 0, 0, 0)
             ratio == IF Len(pls) > 1 THEN Frac(w.rapid, Len(pls) - 1) ELSE FInt(0)
         IN  PatternDetectionResult(REVENGE_TRADING,
                 FLess(Frac(1, 4), ratio) \/ w.maxcons >= ConsecutiveLossLimit,
                 FMin(FMul(ratio, Frac(5, 2)), FInt(1)),
                 "Found {} rapid trades after losses. Max consecutive losses: {}",
                 <<w.rapid, w.maxcons>>)

-----------------------------------------------------------------------------
(* Overtrading.                                                            *)

MinOvertradingTrades == 2

OvertradingPerDay == 10

OvertradingFullConfidence == 20

(* mutant: ten trades a day already count as overtrading *)
Overtrading_at_ten(ts, now) ==
    IF Len(ts) < MinOvertradingTrades
    THEN PatternDetectionResult(OVERTRADING, FALSE, FInt(0),
             "Insufficient data for analysis", <<>>)
    ELSE LET first_trade_time == purchase_time_or_now(ts[1], now)
             last_trade_time  == purchase_time_or_now(ts[Len(ts)], now)
             days             == DaysOf(last_trade_time - first_trade_time)
             date_range       == IF days = 0 THEN 1 ELSE days
             trades_per_day   == Frac(Len(ts), date_range)
         IN  PatternDetectionResult(OVERTRADING,
                 ~FLess(trades_per_day, FInt(OvertradingPerDay)),
                 FMin(FDiv(trades_per_day, FInt(OvertradingFullConfidence)), FInt(1)),
                 "Average {:.1f} trades per day over {} days",
                 <<RoundInt(trades_per_day, 10), date_range>>)

Overtrading(ts, now) ==
    IF Len(ts) < MinOvertradingTrades
    THEN PatternDetectionResult(OVERTRADING, FALSE, FInt(0),
             "Insufficient data for analysis", <<>>)
    ELSE LET first_trade_time == purchase_time_or_now(ts[1], now)
             last_trade_time  == purchase_time_or_now(ts[Len(ts)], now)
             days             == DaysOf(last_trade_time - first_trade_time)
             date_range       == IF days = 0 THEN 1 ELSE days
             trades_per_day   == Frac(Len(ts), date_range)
         IN  PatternDetectionResult(OVERTRADING,
                 FLess(FInt(OvertradingPerDay), trades_per_day),
                 FMin(FDiv(trades_per_day, FInt(OvertradingFullConfidence)), FInt(1)),
                 "Average {:.1f} trades per day over {} days",
                 <<RoundInt(trades_per_day, 10), date_range>>)

-----------------------------------------------------------------------------
(* Consistent timing.                                                      *)

(* mutant: one trade fewer is taken as enough *)
MinTimingTrades_4 == 5 - 1

(* mutant: five trades are not yet enough *)
MinTimingTrades_6 == 5 + 1

(* mutant: the confidence reaches 0 at a standard deviation of 2 *)
TimingStdDevSpan_2 == 6 \div 3

MinTimingTrades == 5

(* mutant: a standard deviation below 4 already counts as consistent *)
TimingStdDevLimit_4 == 3 + 1

TimingStdDevLimit == 3

TimingStdDevSpan == 6

(* statistics.stdev squared: the sample variance, n >= 2 *)
SampleVariance(xs) ==
    LET n  == Len(xs)
        s  == SumSeq(xs)
        sq == SumSeq([i \in 1..n |-> xs[i] * xs[i]])
    IN  Frac(n * sq - s * s, n * (n - 1))

(* round(max(0, 1 - sqrt(v) / 6), 2) in hundredths: the largest k with     *)
(* 1 - sqrt(v)/6 >= (k - 1/2)/100, which is v <= (6 (201 - 2k) / 200)^2    *)
TimingConfidence(v) ==
    LET ks == {k \in 0..100 :
                 v.n * 10000 * 4 <=
                 TimingStdDevSpan * TimingStdDevSpan * (201 - 2 * k) * (201 - 2 * k) * v.d}
    IN  IF ks = {} THEN FInt(0)
        ELSE Frac(CHOOSE k \in ks : \A j \in ks : j <= k, 100)

(* "{std_dev:.1f}" in tenths: the largest k with sqrt(v) >= (k - 1/2)/10 *)
StdDevTenths(v) ==
    CHOOSE k \in 0..(10 * HoursPerDay) :
        /\ (2 * k - 1) * (2 * k - 1) * v.d <= 400 * v.n \/ k = 0
        /\ (2 * k + 1) * (2 * k + 1) * v.d > 400 * v.n

ConsistentTiming(ts, now) ==
    IF Len(ts) < MinTimingTrades
    THEN PatternDetectionResult(CONSISTENT_TIMING, FALSE, FInt(0),
             "Insufficient data for analysis (need at least 5 trades)", <<>>)
    ELSE LET hours    == [i \in 1..Len(ts) |-> HourOf(purchase_time_or_now(ts[i], now))]
             variance == IF Cardinality({hours[i] : i \in 1..Len(hours)}) = 1
                         THEN FInt(0) ELSE SampleVariance(hours)
             detected == FLess(variance, FInt(TimingStdDevLimit * TimingStdDevLimit))
         IN  PatternDetectionResult(CONSISTENT_TIMING, detected,
                 TimingConfidence(variance),
                 IF detected
                 THEN "Trading hour standard deviation: {:.1f}. Consistent trading times."
                 ELSE "Trading hour standard deviation: {:.1f}. Variable trading times.",
                 <<StdDevTenths(variance)>>)

-----------------------------------------------------------------------------
(* Risk issues.                                                            *)

MinRiskTrades == 3

RiskRatioLimit == 2

(* _detect_risk_issues from the list of winning P/Ls and the list the      *)
(* caller built from the losing ones                                       *)
RiskIssues(n, profits, losses) ==
    IF n < MinRiskTrades
    THEN PatternDetectionResult(RISK_ISSUES, FALSE, FInt(0),
             "Insufficient data for analysis", <<>>)
    ELSE IF profits = <<>> \/ losses = <<>>
    THEN PatternDetectionResult(RISK_ISSUES, FALSE, FInt(0),
             "Need both winning and losing trades for risk analysis", <<>>)
    ELSE LET avg_profit == Mean(profits)
             avg_loss   == Mean(losses)
             ratio      == IF FLess(FInt(0), avg_profit)
                           THEN FDiv(avg_loss, avg_profit) ELSE FInf
         IN  PatternDetectionResult(RISK_ISSUES,
                 FLess(FInt(RiskRatioLimit), ratio),
                 IF FLess(FInt(1), ratio)
                 THEN FMin(FDiv(FSub(ratio, FInt(1)), FInt(3)), FInt(1))
                 ELSE FInt(0),
                 "Average loss (${:.2f}) is {:.1f}x average profit (${:.2f})",
                 <<RoundInt(avg_loss, 100),
                   IF ratio.d = 0 THEN 0 ELSE RoundInt(ratio, 10),
                   RoundInt(avg_profit, 100)>>)

-----------------------------------------------------------------------------
(* app/ai_services/analysis.py: the detectors.                             *)

detect_revenge_trading(ts) ==
    RevengeTrading([i \in 1..Len(ts) |-> profit_loss_or_0(ts[i])], [i \in 1..Len(ts) |-> purchase_time_or_min(ts[i])])

(* losses = [abs(pl) ... if pl < 0] *)
detect_risk_issues(ts) ==
    LET pls    == [i \in 1..Len(ts) |-> profit_loss_or_0(ts[i])]
        losing == SelectSeq(pls, IsNegative)
    IN  RiskIssues(Len(ts), SelectSeq(pls, IsPositive),
                   [i \in 1..Len(losing) |-> Abs(losing[i])])

(* mutant: the guard for the empty list is missing *)
detect_patterns_unguarded(ts, now) ==
    LET sorted_trades == SortByPurchaseTime(ts)
    IN  <<detect_revenge_trading(sorted_trades),
          Overtrading(sorted_trades, now),
          ConsistentTiming(sorted_trades, now),
          detect_risk_issues(sorted_trades)>>

(* mutant: the risk detector runs before the timing detector *)
detect_patterns_reordered(ts, now) ==
    IF ts = <<>> THEN <<>>
    ELSE LET sorted_trades == SortByPurchaseTime(ts)
         IN  <<detect_revenge_trading(sorted_trades),
               Overtrading(sorted_trades, now),
               detect_risk_issues(sorted_trades),
               ConsistentTiming(sorted_trades, now)>>

detect_patterns(ts, now) ==
    IF ts = <<>> THEN <<>>
    ELSE LET sorted_trades == SortByPurchaseTime(ts)
         IN  <<detect_revenge_trading(sorted_trades),
               Overtrading(sorted_trades, now),
               ConsistentTiming(sorted_trades, now),
               detect_risk_issues(sorted_trades)>>

-----------------------------------------------------------------------------
(* app/services/analysis/analysis.py: the detectors.                       *)

Svc_detect_revenge_trading(ts) ==
    RevengeTrading([i \in 1..Len(ts) |-> sell_minus_buy(ts[i])], [i \in 1..Len(ts) |-> purchase_time_or_min(ts[i])])

(* losses = [sell - buy ... if sell - buy < 0]: signed, no abs() *)
Svc_detect_risk_issues(ts) ==
    LET pls == [i \in 1..Len(ts) |-> sell_minus_buy(ts[i])]
    IN  RiskIssues(Len(ts), SelectSeq(pls, IsPositive), SelectSeq(pls, IsNegative))

Svc_detect_patterns(ts, now) ==
    IF ts = <<>> THEN <<>>
    ELSE LET sorted_trades == SortByPurchaseTime(ts)
         IN  <<Svc_detect_revenge_trading(sorted_trades),
               Overtrading(sorted_trades, now),
               ConsistentTiming(sorted_trades, now),
               Svc_detect_risk_issues(sorted_trades)>>

(* TypeError: an operand of "-" or ">" is None; dict.get returns the None  *)
(* a key holds, its default only when the key is missing                   *)
Svc_price_raises(t) == IsNull(t.sell_price) \/ IsNull(t.buy_price)

Svc_calculate_win_rate_raises(ts) ==
    \E i \in 1..Len(ts) : Svc_price_raises(ts[i])

Svc_calculate_statistics_raises(ts) ==
    \E i \in 1..Len(ts) : Svc_price_raises(ts[i])

(* the revenge walk reads the price of every trade but the last, the risk *)
(* detector of every trade; both return early on fewer than three trades  *)
Svc_detect_patterns_raises(ts) ==
    \/ /\ Len(ts) >= MinRevengeTrades
       /\ \E i \in 1..(Len(ts) - 1) : Svc_price_raises(SortByPurchaseTime(ts)[i])
    \/ /\ Len(ts) >= MinRiskTrades
       /\ \E i \in 1..Len(ts) : Svc_price_raises(ts[i])

(* mutant: trades.sort(key=...), which reorders the caller's list *)
sort_in_place(ts) ==
    [trades |-> SortByPurchaseTime(ts), sorted_trades |-> SortByPurchaseTime(ts)]

(* sorted(trades, key=...): a new list; the argument keeps its order *)
sorted_by_purchase_time(ts) ==
    [trades |-> ts, sorted_trades |-> SortByPurchaseTime(ts)]

-----------------------------------------------------------------------------
(* format_duration.                                                        *)

DurationHoursLimit == 1

DurationDaysLimit == 24

(* int(x): the fraction is cut off, towards zero *)
TruncInt(a) == IF a.n < 0 THEN -((-a.n) \div a.d) ELSE a.n \div a.d

(* format_duration(hours); the result keeps the format and the number put  *)
(* into it, the one-decimal formats in tenths                              *)
format_duration(hours) ==
    IF FLess(hours, FInt(DurationHoursLimit))
    THEN [text |-> "{} minutes", args |-> <<TruncInt(FMul(hours, FInt(MinutesPerHour)))>>]
    ELSE IF FLess(hours, FInt(DurationDaysLimit))
    THEN [text |-> "{:.1f} hours", args |-> <<RoundInt(hours, 10)>>]
    ELSE [text |-> "{:.1f} days",
          args |-> <<RoundInt(FDiv(hours, FInt(DurationDaysLimit)), 10)>>]

(* AnalysisService.format_duration is written inside the class as          *)
(* "def format_duration(hours)", with neither self nor @staticmethod: a    *)
(* call that does not pass exactly one positional argument is a TypeError  *)
Svc_format_duration_raises(args) == Len(args) # 1

Svc_format_duration(args) ==
    LET hours == args[1]
    IN  IF FLess(hours, FInt(DurationHoursLimit))
        THEN [text |-> "{} minutes",
              args |-> <<TruncInt(FMul(hours, FInt(MinutesPerHour)))>>]
        ELSE IF FLess(hours, FInt(DurationDaysLimit))
        THEN [text |-> "{:.1f} hours", args |-> <<RoundInt(hours, 10)>>]
        ELSE [text |-> "{:.1f} days",
              args |-> <<RoundInt(FDiv(hours, FInt(DurationDaysLimit)), 10)>>]

-----------------------------------------------------------------------------
(* app/ai_services/chat.py and app/services/ai/llm/chat/chat.py:           *)
(* TradingChatBot.  A ChatSession object is known by its position in       *)
(* session_objects; _sessions maps the stored ids to these positions.      *)

ChatMessage(role, content) == [role |-> role, content |-> content]

ChatSession(session_id, user_id) ==
    [session_id |-> session_id, user_id |-> user_id, messages |-> <<>>]

(* ChatSession.add_message *)
add_message(session, role, content) ==
    [session EXCEPT !.messages = Append(@, ChatMessage(role, content))]

(* _check_quick_response: the canned answer to a greeting, None for a      *)
(* question about trading                                                  *)
check_quick_response(message) ==
    IF message = "hello" THEN Some("greeting") ELSE Absent

(* get_or_create_session; fresh is the uuid4 drawn when no id is given *)
get_or_create_session(ss, objects, session_id, user_id, fresh) ==
    IF Has(session_id) /\ Val(session_id) \in DOMAIN ss
    THEN [sessions |-> ss, objects |-> objects, session |-> ss[Val(session_id)]]
    ELSE LET new_session_id == IF Has(session_id) THEN Val(session_id) ELSE fresh
             session        == Len(objects) + 1
         IN  [sessions |-> [id \in DOMAIN ss \cup {new_session_id} |->
                               IF id = new_session_id THEN session ELSE ss[id]],
              objects  |-> Append(objects, ChatSession(new_session_id, user_id)),
              session  |-> session]

(* mutant: the session is reported cleared but stays stored *)
clear_session_kept(ss, session_id) ==
    [sessions |-> ss, result |-> session_id \in DOMAIN ss]

(* clear_session: del self._sessions[session_id], True; False if not found *)
clear_session(ss, session_id) ==
    IF session_id \in DOMAIN ss
    THEN [sessions |-> [id \in DOMAIN ss \ {session_id} |-> ss[id]], result |-> TRUE]
    ELSE [sessions |-> ss, result |-> FALSE]

(* get_session_history: role and content of each message (the timestamps   *)
(* are left out), [] for an id that is not stored                          *)
get_session_history(ss, objects, session_id) ==
    IF session_id \in DOMAIN ss THEN objects[ss[session_id]].messages ELSE <<>>

-----------------------------------------------------------------------------
(* The trades a caller hands in.  A trade carries the fields either        *)
(* implementation reads; an optional field that is missing is Absent.      *)

MaxLen == 5

MaxSymbolLen == 4

MaxPLLen == 4

Trade(pl, buy, sell, ptime, stime, sym, ctype) ==
    [profit_loss |-> pl, buy_price |-> buy, sell_price |-> sell,
     purchase_time |-> ptime, sell_time |-> stime,
     symbol |-> sym, underlying_symbol |-> sym, contract_type |-> ctype]

(* a closed trade bought at 100 with the given P/L, held for an hour *)
Closed(pl, ptime, sym, ctype) ==
    Trade(Some(pl), Some(100), Some(100 + pl), Some(ptime), Some(ptime + 60),
          Some(sym), Some(ctype))

ListsOver(universe, maxlen) == UNION {[1..n -> universe] : n \in 0..maxlen}

(* mixed histories: a win at 09:00, a loss ten minutes later, a large loss *)
(* at 15:00 and a loss the next morning                                    *)
MixedTrades ==
    {Closed(10, 540, "EURUSD", "CALL"),
     Closed(-5, 550, "EURUSD", "PUT"),
     Closed(-41, 900, "BTC/USD", "CALL"),
     Closed(-5, 1980, "EURUSD", "CALL")}

(* wins and losses of the sizes that straddle the risk ratio of 2 *)
RiskTrades ==
    {Closed(10, 540, "EURUSD", "CALL"),
     Closed(-5, 600, "EURUSD", "CALL"),
     Closed(-35, 660, "EURUSD", "CALL"),
     Closed(-41, 720, "EURUSD", "CALL")}

(* every way the P/L fields can be present or missing *)
PLTrades ==
    {Closed(10, 540, "EURUSD", "CALL"),
     Closed(-5, 540, "EURUSD", "CALL"),
     Closed(0, 540, "EURUSD", "CALL"),
     Trade(Absent, Some(100), Some(110), Some(540), Some(600),
           Some("EURUSD"), Some("CALL")),
     Trade(Absent, Some(100), Absent, Some(540), Absent,
           Some("EURUSD"), Some("CALL"))}

(* symbols and contract types, the sentinel among them, and a trade that   *)
(* names neither                                                           *)
SymbolTrades ==
    {Closed(10, 540, "EURUSD", "CALL"),
     Closed(-5, 540, "BTC/USD", "CALL"),
     Closed(15, 540, "EURUSD", "PUT"),
     Closed(-8, 540, "N/A", "N/A"),
     Trade(Some(0), Some(100), Some(100), Some(540), Some(600), Absent, Absent)}

MaxUntimedLen == 5

(* trades of which one has no purchase_time attribute / key *)
UntimedTrades ==
    {Closed(10, 540, "EURUSD", "CALL"),
     Closed(-5, 550, "EURUSD", "CALL"),
     Closed(-41, 1980, "EURUSD", "CALL"),
     Trade(Some(-5), Some(100), Some(95), Absent, Some(600),
           Some("EURUSD"), Some("CALL"))}

MaxNullLen == 3

(* optional fields that are missing, and optional fields that hold None:   *)
(* an open trade without the three of them, an open trade with all three   *)
(* None, and a closed trade whose profit_loss and sell_time are None       *)
NullTrades ==
    {Closed(10, 540, "EURUSD", "CALL"),
     Closed(-5, 550, "EURUSD", "CALL"),
     Trade(Absent, Some(100), Absent, Some(560), Absent,
           Some("EURUSD"), Some("CALL")),
     Trade(Null, Some(100), Null, Some(570), Null,
           Some("EURUSD"), Some("CALL")),
     Trade(Null, Some(100), Some(110), Some(580), Null,
           Some("EURUSD"), Some("CALL"))}

MaxRevengeLen == 4

(* a win and a loss at 09:00, a loss exactly 30 minutes later, a loss 29   *)
(* minutes after that one, and a trade sold below its buy price that       *)
(* carries no profit_loss                                                  *)
RevengeTrades ==
    {Closed(10, 540, "EURUSD", "CALL"),
     Closed(-5, 540, "EURUSD", "CALL"),
     Closed(-5, 570, "EURUSD", "CALL"),
     Closed(-5, 599, "EURUSD", "CALL"),
     Trade(Absent, Some(100), Some(95), Some(600), Some(660),
           Some("EURUSD"), Some("CALL"))}

MaxOvertradingLen == 11

Run(t, k) == [i \in 1..k |-> t]

(* busy histories in chronological order: trades at 09:00, trades at 08:59 *)
(* the next morning (23 h 59 min later) and trades two and a half days     *)
(* after the first                                                         *)
OvertradingLists ==
    {Run(Closed(10, 540, "EURUSD", "CALL"), c[1])
       \o Run(Closed(-5, 1979, "EURUSD", "CALL"), c[2])
       \o Run(Closed(-5, 4140, "EURUSD", "CALL"), c[3]) :
     c \in {x \in (0..MaxOvertradingLen) \X (0..MaxOvertradingLen) \X (0..MaxOvertradingLen) :
              x[1] + x[2] + x[3] <= MaxOvertradingLen}}

MaxTimingLen == 5

(* trades bought shortly after midnight, at 09:00, at 15:00 and at 23:00   *)
(* the next day                                                            *)
TimingTrades ==
    {Closed(10, 10, "EURUSD", "CALL"),
     Closed(-5, 540, "EURUSD", "CALL"),
     Closed(10, 900, "EURUSD", "CALL"),
     Closed(-5, 2820, "EURUSD", "CALL")}

MaxHoldingLen == 4

(* a trade held for an hour, one held for an hour and a half, an open      *)
(* trade, a trade whose sell_time is None and a trade with no              *)
(* purchase_time                                                           *)
HoldingTrades ==
    {Closed(10, 540, "EURUSD", "CALL"),
     Trade(Some(-5), Some(100), Some(95), Some(540), Some(630),
           Some("EURUSD"), Some("CALL")),
     Trade(Absent, Some(100), Absent, Some(560), Absent,
           Some("EURUSD"), Some("CALL")),
     Trade(Some(10), Some(100), Some(110), Some(540), Null,
           Some("EURUSD"), Some("CALL")),
     Trade(Some(-5), Some(100), Some(95), Absent, Some(600),
           Some("EURUSD"), Some("CALL"))}

MaxSpacedLen == 5

(* three losses an hour apart from 09:00, a small win at 12:00, a win at   *)
(* 14:00 the next day, and a win bought at 09:00 together with the first   *)
(* loss                                                                    *)
SpacedTrades ==
    {Closed(-5, 540, "EURUSD", "CALL"),
     Closed(-41, 600, "EURUSD", "CALL"),
     Closed(-5, 660, "EURUSD", "CALL"),
     Closed(5, 720, "EURUSD", "CALL"),
     Closed(10, 2300, "EURUSD", "CALL"),
     Closed(20, 540, "EURUSD", "CALL")}

(* histories in any order in which no trade occurs twice *)
SpacedLists ==
    {l \in ListsOver(SpacedTrades, MaxSpacedLen) :
        \A i \in 1..Len(l) : \A j \in 1..Len(l) : l[i] = l[j] => i = j}

MaxDurationEighths == 400

(* durations in eighths of an hour, each an exact float: up to 50 hours *)
DurationInputs == {Frac(k, 8) : k \in 0..MaxDurationEighths}

MaxSessionObjects == 2

MaxMessages == 4

SessionIds == {"s1", "s2"}

Users == {1, 2}

(* a greeting, which has a quick response, and a question, which has none *)
UserMessages == {"hello", "question"}

Implementations == {"ai_services", "services"}

(* the values datetime.now() may return during a call *)
Nows == {2000, 5000}

-----------------------------------------------------------------------------
(* State: the caller's list, the implementation it imported, and what each *)
(* function returned last (meaningful once the function is in calls).      *)

(* a call of the chatbot and its return value: the ChatSession of          *)
(* get_or_create_session and chat, the flag of clear_session, the list of  *)
(* get_session_history                                                     *)
Returned(op, session_id, user_id, session, result, messages) ==
    [op |-> op, session_id |-> session_id, user_id |-> user_id,
     session |-> session, result |-> result, messages |-> messages]

(* no format_duration call yet *)
NoDuration ==
    /\ duration = FInt(0)
    /\ formatted = Absent

(* TradingChatBot.__init__: self._sessions = {} *)
NoChat ==
    /\ sessions = [id \in {} |-> 0]
    /\ session_objects = <<>>
    /\ pending = <<>>
    /\ last_op = Returned("", "", 0, 0, FALSE, <<>>)

InitOver(universe, maxlen) ==
    /\ impl \in Implementations
    /\ trades \in ListsOver(universe, maxlen)
    /\ calls = {}
    /\ raised = {}
    /\ win_rate = FInt(0)
    /\ stats = EmptyStatistics
    /\ patterns = <<>>
    /\ NoDuration
    /\ NoChat

InitLists(lists) ==
    /\ impl \in Implementations
    /\ trades \in lists
    /\ calls = {}
    /\ raised = {}
    /\ win_rate = FInt(0)
    /\ stats = EmptyStatistics
    /\ patterns = <<>>
    /\ NoDuration
    /\ NoChat

Init == InitOver(MixedTrades, MaxLen)

InitOvertrading == InitLists(OvertradingLists)

InitUntimed == InitOver(UntimedTrades, MaxUntimedLen)

InitNull == InitOver(NullTrades, MaxNullLen)

InitRevenge == InitOver(RevengeTrades, MaxRevengeLen)

InitTiming == InitOver(TimingTrades, MaxTimingLen)

InitHolding == InitOver(HoldingTrades, MaxHoldingLen)

InitSpaced == InitLists(SpacedLists)

(* no analysis call yet *)
NoAnalysis ==
    /\ trades = <<>>
    /\ calls = {}
    /\ raised = {}
    /\ win_rate = FInt(0)
    /\ stats = EmptyStatistics
    /\ patterns = <<>>

InitChat ==
    /\ impl \in Implementations
    /\ NoAnalysis
    /\ NoDuration
    /\ NoChat

InitDuration ==
    /\ impl \in Implementations
    /\ NoAnalysis
    /\ duration \in DurationInputs
    /\ formatted = Absent
    /\ NoChat

InitRisk == InitOver(RiskTrades, MaxLen)

InitPL == InitOver(PLTrades, MaxPLLen)

InitSymbols == InitOver(SymbolTrades, MaxSymbolLen)

(* calculate_win_rate(trades): reads the list, returns a float *)
CalculateWinRate ==
    /\ impl = "ai_services"
    /\ win_rate' = calculate_win_rate(trades)
    /\ calls' = calls \cup {"calculate_win_rate"}
    /\ UNCHANGED <<impl, trades, raised, stats, patterns, duration_vars, chat_vars>>

(* calculate_statistics(trades) *)
CalculateStatistics ==
    /\ impl = "ai_services"
    /\ stats' = calculate_statistics(trades)
    /\ calls' = calls \cup {"calculate_statistics"}
    /\ UNCHANGED <<impl, trades, raised, win_rate, patterns, duration_vars, chat_vars>>

(* detect_patterns(trades): returns before sorting when the list is empty *)
DetectPatterns ==
    /\ impl = "ai_services"
    /\ \E now \in Nows : patterns' = detect_patterns(trades, now)
    /\ trades' = IF trades = <<>> THEN trades
                 ELSE sorted_by_purchase_time(trades).trades
    /\ calls' = calls \cup {"detect_patterns"}
    /\ UNCHANGED <<impl, raised, win_rate, stats, duration_vars, chat_vars>>

(* AnalysisService.calculate_win_rate(trades) *)
SvcCalculateWinRate ==
    /\ impl = "services"
    /\ IF Svc_calculate_win_rate_raises(trades)
       THEN /\ raised' = raised \cup {"calculate_win_rate"}
            /\ UNCHANGED <<win_rate, calls>>
       ELSE /\ win_rate' = Svc_calculate_win_rate(trades)
            /\ calls' = calls \cup {"calculate_win_rate"}
            /\ UNCHANGED raised
    /\ UNCHANGED <<impl, trades, stats, patterns, duration_vars, chat_vars>>

(* AnalysisService.calculate_statistics(trades) *)
SvcCalculateStatistics ==
    /\ impl = "services"
    /\ IF Svc_calculate_statistics_raises(trades)
       THEN /\ raised' = raised \cup {"calculate_statistics"}
            /\ UNCHANGED <<stats, calls>>
       ELSE /\ stats' = Svc_calculate_statistics(trades)
            /\ calls' = calls \cup {"calculate_statistics"}
            /\ UNCHANGED raised
    /\ UNCHANGED <<impl, trades, win_rate, patterns, duration_vars, chat_vars>>

(* AnalysisService.detect_patterns(trades) *)
SvcDetectPatterns ==
    /\ impl = "services"
    /\ IF Svc_detect_patterns_raises(trades)
       THEN /\ raised' = raised \cup {"detect_patterns"}
            /\ UNCHANGED <<patterns, calls>>
       ELSE /\ \E now \in Nows : patterns' = Svc_detect_patterns(trades, now)
            /\ calls' = calls \cup {"detect_patterns"}
            /\ UNCHANGED raised
    /\ trades' = IF trades = <<>> THEN trades
                 ELSE sorted_by_purchase_time(trades).trades
    /\ UNCHANGED <<impl, win_rate, stats, duration_vars, chat_vars>>

(* format_duration(statistics["average_trade_duration_hours"]) *)
FormatDuration ==
    /\ impl = "ai_services"
    /\ formatted' = Some(format_duration(duration))
    /\ calls' = calls \cup {"format_duration"}
    /\ UNCHANGED <<impl, trades, raised, win_rate, stats, patterns, duration, chat_vars>>

(* self._analysis_service.format_duration(...): the bound method passes    *)
(* the service itself before the duration                                  *)
SvcFormatDuration ==
    /\ impl = "services"
    /\ LET args == <<FInt(0), duration>>
       IN  IF Svc_format_duration_raises(args)
           THEN /\ raised' = raised \cup {"format_duration"}
                /\ UNCHANGED <<formatted, calls>>
           ELSE /\ formatted' = Some(Svc_format_duration(args))
                /\ calls' = calls \cup {"format_duration"}
                /\ UNCHANGED raised
    /\ UNCHANGED <<impl, trades, win_rate, stats, patterns, duration, chat_vars>>

RECURSIVE TotalMessages(_)
TotalMessages(objects) ==
    IF objects = <<>> THEN 0
    ELSE Len(Head(objects).messages) + TotalMessages(Tail(objects))

OptionalSessionIds == {Absent} \cup {Some(id) : id \in SessionIds}

SessionIdText(session_id) == IF Has(session_id) THEN Val(session_id) ELSE ""

Creates(session_id) == ~(Has(session_id) /\ Val(session_id) \in DOMAIN sessions)

FreshIds(session_id) ==
    IF Has(session_id) THEN {Val(session_id)} ELSE SessionIds \ DOMAIN sessions

(* chatbot.get_or_create_session(session_id, user_id), without context *)
GetOrCreateSession ==
    \E session_id \in OptionalSessionIds, user_id \in Users :
      \E fresh \in FreshIds(session_id) :
        LET g == get_or_create_session(sessions, session_objects, session_id, user_id, fresh)
        IN  /\ Creates(session_id) => Len(session_objects) < MaxSessionObjects
            /\ sessions' = g.sessions
            /\ session_objects' = g.objects
            /\ last_op' = Returned("get_or_create_session", SessionIdText(session_id),
                                   user_id, g.session, FALSE, <<>>)
            /\ UNCHANGED <<impl, trades, calls, raised, win_rate, stats, patterns,
                           duration_vars, pending>>

(* chat(session_id, user_id, message) from the session lookup on, up to    *)
(* its return or to the await of the model's reply.  AnalysisService's     *)
(* chatbot has no quick responses, and builds a new session's context from *)
(* the user's row: without the row it raises UnboundLocalError before the  *)
(* session is stored.                                                      *)
ChatStart ==
    \E session_id \in OptionalSessionIds, user_id \in Users, message \in UserMessages :
      \E fresh \in FreshIds(session_id), user_found \in BOOLEAN, client \in BOOLEAN :
        LET g     == get_or_create_session(sessions, session_objects, session_id, user_id, fresh)
            asked == [g.objects EXCEPT ![g.session] = add_message(@, "user", message)]
            quick == IF impl = "ai_services" THEN check_quick_response(message) ELSE Absent
        IN  /\ Creates(session_id) => Len(session_objects) < MaxSessionObjects
            /\ TotalMessages(session_objects) + Len(pending) + 2 <= MaxMessages
            /\ IF impl = "services" /\ Creates(session_id) /\ ~user_found
               THEN /\ raised' = raised \cup {"chat"}
                    /\ UNCHANGED <<sessions, session_objects, pending>>
               ELSE /\ sessions' = g.sessions
                    /\ UNCHANGED raised
                    /\ IF Has(quick)
                       THEN /\ session_objects' =
                                   [asked EXCEPT ![g.session] = add_message(@, "assistant", Val(quick))]
                            /\ UNCHANGED pending
                       ELSE IF client
                       THEN /\ session_objects' = asked
                            /\ pending' = Append(pending, [session |-> g.session, message |-> message])
                       ELSE /\ session_objects' =
                                   [asked EXCEPT ![g.session] = add_message(@, "assistant", "fallback")]
                            /\ UNCHANGED pending
            /\ last_op' = Returned("chat", SessionIdText(session_id), user_id, 0, FALSE, <<>>)
            /\ UNCHANGED <<impl, trades, calls, win_rate, stats, patterns, duration_vars>>

(* the awaited call returns, or raises and the fallback answers: the reply *)
(* goes to the ChatSession object the call holds                           *)
ChatFinish ==
    \E k \in 1..Len(pending), content \in {"reply", "fallback"} :
        /\ session_objects' =
               [session_objects EXCEPT ![pending[k].session] = add_message(@, "assistant", content)]
        /\ pending' = SubSeq(pending, 1, k - 1) \o SubSeq(pending, k + 1, Len(pending))
        /\ last_op' = Returned("chat", session_objects[pending[k].session].session_id,
                               session_objects[pending[k].session].user_id, 0, FALSE, <<>>)
        /\ UNCHANGED <<impl, trades, calls, raised, win_rate, stats, patterns,
                       duration_vars, sessions>>

(* chatbot.clear_session(session_id) *)
ClearSession ==
    \E session_id \in SessionIds :
        LET c == clear_session(sessions, session_id)
        IN  /\ sessions' = c.sessions
            /\ last_op' = Returned("clear_session", session_id, 0, 0, c.result, <<>>)
            /\ UNCHANGED <<impl, trades, calls, raised, win_rate, stats, patterns,
                           duration_vars, session_objects, pending>>

(* chatbot.get_session_history(session_id) *)
GetSessionHistory ==
    \E session_id \in SessionIds :
        /\ last_op' = Returned("get_session_history", session_id, 0, 0, FALSE,
                               get_session_history(sessions, session_objects, session_id))
        /\ UNCHANGED <<impl, trades, calls, raised, win_rate, stats, patterns,
                       duration_vars, sessions, session_objects, pending>>

Next ==
    \/ CalculateWinRate
    \/ CalculateStatistics
    \/ DetectPatterns
    \/ SvcCalculateWinRate
    \/ SvcCalculateStatistics
    \/ SvcDetectPatterns

Spec == Init /\ [][Next]_vars

SpecRisk == InitRisk /\ [][Next]_vars

SpecPL == InitPL /\ [][Next]_vars

SpecSymbols == InitSymbols /\ [][Next]_vars

(* detect_patterns alone *)
NextPatterns ==
    \/ DetectPatterns
    \/ SvcDetectPatterns

SpecOvertrading == InitOvertrading /\ [][NextPatterns]_vars

SpecUntimed == InitUntimed /\ [][NextPatterns]_vars

SpecNull == InitNull /\ [][Next]_vars

SpecRevenge == InitRevenge /\ [][NextPatterns]_vars

SpecTiming == InitTiming /\ [][NextPatterns]_vars

SpecHolding == InitHolding /\ [][Next]_vars

SpecSpaced == InitSpaced /\ [][NextPatterns]_vars

NextDuration ==
    \/ FormatDuration
    \/ SvcFormatDuration

SpecDuration == InitDuration /\ [][NextDuration]_vars

NextChat ==
    \/ GetOrCreateSession
    \/ ChatStart
    \/ ChatFinish
    \/ ClearSession
    \/ GetSessionHistory

SpecChat == InitChat /\ [][NextChat]_vars

-----------------------------------------------------------------------------
(* Properties.                                                             *)

Called(f) == f \in calls

PatternsOf(rs) == [i \in 1..Len(rs) |-> rs[i].pattern]

FourInOrder ==
    <<"revenge_trading", "overtrading", "consistent_timing", "risk_issues">>

C2_EmptyListNoPatterns ==
    /\ [](trades = <<>> /\ Called("detect_patterns") => patterns = <<>>)
    /\ [](trades = <<>> /\ Called("calculate_statistics") =>
             /\ stats.total_trades = 0
             /\ stats.most_traded_symbol = "N/A")
    /\ [][trades = <<>> /\ ~Called("detect_patterns") /\ Called("detect_patterns")'
             => patterns' = <<>> /\ stats' = stats /\ trades' = trades]_vars

C2_Witness ==
    /\ trades = <<>>
    /\ Called("detect_patterns")
    /\ Called("calculate_statistics")

(* C10: below its minimum length each heuristic returns detected = FALSE   *)
(* with confidence 0 whatever the trades are: RevengeTrading below 3,      *)
(* Overtrading below 2, ConsistentTiming below 5, RiskIssues below 3; so   *)
(* for a single trade no result is detected.                               *)
C10_InsufficientData ==
    Called("detect_patterns") /\ trades # <<>> =>
        LET n       == Len(trades)
            Quiet(r) == ~r.detected /\ r.confidence = [n |-> 0, d |-> 1]
        IN  /\ n < 3 => Quiet(patterns[1])
            /\ n < 2 => Quiet(patterns[2])
            /\ n < 5 => Quiet(patterns[3])
            /\ n < 3 => Quiet(patterns[4])
            /\ n = 1 => \A i \in 1..Len(patterns) : ~patterns[i].detected

(* two trades, the second ten minutes after a loss: only Overtrading has   *)
(* enough data                                                             *)
C10_Witness ==
    /\ Called("detect_patterns")
    /\ Len(trades) = 2
    /\ Val(trades[1].profit_loss) < 0
    /\ patterns[2].confidence # [n |-> 0, d |-> 1]
    /\ patterns[1].confidence = [n |-> 0, d |-> 1]

-----------------------------------------------------------------------------
(* The derived P/L of the specification: the trade's profit_loss when      *)
(* present, otherwise sell_price - buy_price, and 0 when neither resolves. *)

DerivedPL(t) ==
    IF Has(t.profit_loss) THEN Val(t.profit_loss)
    ELSE IF Has(t.sell_price) /\ Has(t.buy_price)
         THEN Val(t.sell_price) - Val(t.buy_price)
         ELSE 0

DerivedPLs(ts) == [i \in 1..Len(ts) |-> DerivedPL(ts[i])]

Wins(ts) == SelectSeq(DerivedPLs(ts), LAMBDA x : x > 0)

Losses(ts) == SelectSeq(DerivedPLs(ts), LAMBDA x : x < 0)

LossMagnitudes(ts) == [i \in 1..Len(Losses(ts)) |-> 0 - Losses(ts)[i]]

Zero == [n |-> 0, d |-> 1]

One == [n |-> 1, d |-> 1]

(* C3: RiskIssues compares the mean of the absolute values of the losing   *)
(* P/Ls with the mean of the winning P/Ls: with at least 3 trades, a win   *)
(* and a loss among them, detected holds exactly when                      *)
(* mean(|losses|) > 2 * mean(profits), and confidence is                   *)
(* min((ratio - 1)/3, 1) when ratio > 1 and 0 otherwise.                   *)
C3_RiskComparesMagnitudes ==
    Called("detect_patterns") /\ Len(trades) >= 3
        /\ Wins(trades) # <<>> /\ Losses(trades) # <<>> =>
        LET sumP  == SumSeq(Wins(trades)) * Len(Losses(trades))
            sumL  == (0 - SumSeq(Losses(trades))) * Len(Wins(trades))
            ratio == Frac(sumL, sumP)
        IN  /\ patterns[4].pattern = "risk_issues"
            /\ patterns[4].detected <=> sumL > 2 * sumP
            /\ patterns[4].confidence =
                   IF sumL > sumP
                   THEN FMin(Frac(ratio.n - ratio.d, 3 * ratio.d), One)
                   ELSE Zero

(* C4: every computation that needs a trade's P/L (win rate, the profit    *)
(* and loss buckets, total P/L, RevengeTrading, RiskIssues) uses the       *)
(* derived P/L; an open trade without sell_price and profit_loss is        *)
(* neither a win nor a loss.                                               *)
C4_DerivedPLEverywhere ==
    /\ Called("calculate_win_rate") /\ trades # <<>> =>
           win_rate = Frac(100 * Len(Wins(trades)), Len(trades))
    /\ Called("calculate_statistics") /\ trades # <<>> =>
           /\ stats.winning_trades = Len(Wins(trades))
           /\ stats.losing_trades = Len(Losses(trades))
           /\ stats.total_profit_loss = [n |-> SumSeq(DerivedPLs(trades)), d |-> 1]
    /\ Called("detect_patterns") /\ trades # <<>> =>
           LET sorted  == SortByPurchaseTime(trades)
               revenge == RevengeTrading(DerivedPLs(sorted),
                                         [i \in 1..Len(sorted) |-> purchase_time_or_min(sorted[i])])
               risk    == RiskIssues(Len(sorted), Wins(sorted),
                                     LossMagnitudes(sorted))
           IN  /\ patterns[1].detected = revenge.detected
               /\ patterns[1].confidence = revenge.confidence
               /\ patterns[4].detected = risk.detected
               /\ patterns[4].confidence = risk.confidence

(* C5: winRate is 100 * (trades with derived P/L > 0) / (trades) for a     *)
(* non-empty list in any order and 0 for the empty list; a trade with P/L  *)
(* exactly 0 is not a win.                                                 *)
C5_WinRateOfDerivedPL ==
    Called("calculate_win_rate") =>
        win_rate = IF trades = <<>> THEN Zero
                   ELSE Frac(100 * Len(Wins(trades)), Len(trades))

(* C7: winning_trades counts the trades with derived P/L > 0,              *)
(* losing_trades those with derived P/L < 0, total_trades is the length of *)
(* the input, and the three kinds add up.                                  *)
C7_BucketsOfDerivedPL ==
    Called("calculate_statistics") =>
        LET zeros == SelectSeq(DerivedPLs(trades), LAMBDA x : x = 0)
        IN  /\ stats.total_trades = Len(trades)
            /\ stats.winning_trades = Len(Wins(trades))
            /\ stats.losing_trades = Len(Losses(trades))
            /\ stats.winning_trades + stats.losing_trades + Len(zeros)
                   = stats.total_trades

-----------------------------------------------------------------------------
(* The grouping key of the specification: the raw string, "Unknown" when   *)
(* the trade has none.  The module reads symbol, the service               *)
(* underlying_symbol.                                                      *)

KeyOr(x) == IF Has(x) THEN Val(x) ELSE "Unknown"

SymbolKeys(ts) ==
    [i \in 1..Len(ts) |->
        KeyOr(IF impl = "ai_services" THEN ts[i].symbol ELSE ts[i].underlying_symbol)]

ContractKeys(ts) == [i \in 1..Len(ts) |-> KeyOr(ts[i].contract_type)]

Occurrences(keys, k) == Cardinality({i \in 1..Len(keys) : keys[i] = k})

FirstIndex(keys, k) ==
    CHOOSE i \in 1..Len(keys) : keys[i] = k /\ \A j \in 1..(i - 1) : keys[j] # k

(* k has the maximal count, and no other key with that count is seen earlier *)
IsFirstSeenMaximal(k, keys) ==
    /\ \E i \in 1..Len(keys) : keys[i] = k
    /\ \A j \in 1..Len(keys) :
           /\ Occurrences(keys, keys[j]) <= Occurrences(keys, k)
           /\ Occurrences(keys, keys[j]) = Occurrences(keys, k)
                  => FirstIndex(keys, k) <= j

HasUniqueMaximum(keys) ==
    \E i \in 1..Len(keys) : \A j \in 1..Len(keys) :
        keys[j] # keys[i] => Occurrences(keys, keys[j]) < Occurrences(keys, keys[i])

(* C6: calculate_statistics on an empty list returns all twelve fields,    *)
(* every number 0 and both most-traded fields "N/A"; for a non-empty list  *)
(* neither field is "N/A" unless a trade literally carries that value.     *)
C6_EmptySnapshot ==
    Called("calculate_statistics") =>
        /\ trades = <<>> =>
               stats = [total_trades |-> 0, winning_trades |-> 0,
                        losing_trades |-> 0, win_rate |-> Zero,
                        total_profit_loss |-> Zero, average_profit |-> Zero,
                        average_loss |-> Zero, largest_win |-> Zero,
                        largest_loss |-> Zero,
                        average_trade_duration_hours |-> Zero,
                        most_traded_symbol |-> "N/A",
                        most_traded_contract_type |-> "N/A"]
        /\ trades # <<>> =>
               /\ stats.most_traded_symbol = "N/A" =>
                      \E i \in 1..Len(trades) :
                          (IF impl = "ai_services" THEN trades[i].symbol
                           ELSE trades[i].underlying_symbol) = <<"N/A">>
               /\ stats.most_traded_contract_type = "N/A" =>
                      \E i \in 1..Len(trades) : trades[i].contract_type = <<"N/A">>

C6_Witness == Called("calculate_statistics") /\ trades = <<>>

(* C8: most_traded_symbol and most_traded_contract_type are keys with the  *)
(* maximal occurrence count, and among several such keys the one whose     *)
(* first occurrence is earliest in input order.                            *)
C8_MostTradedFirstSeen ==
    Called("calculate_statistics") /\ trades # <<>> =>
        /\ IsFirstSeenMaximal(stats.most_traded_symbol, SymbolKeys(trades))
        /\ IsFirstSeenMaximal(stats.most_traded_contract_type, ContractKeys(trades))

(* a tie between two symbols, won by the one seen first *)
C8_Witness ==
    /\ Called("calculate_statistics")
    /\ Len(trades) = 4
    /\ ~HasUniqueMaximum(SymbolKeys(trades))
    /\ stats.most_traded_symbol = SymbolKeys(trades)[1]
    /\ stats.most_traded_symbol # SymbolKeys(trades)[4]

PermutationsOf(ts) ==
    {[i \in 1..Len(ts) |-> ts[p[i]]] : p \in Permutations(1..Len(ts))}

StatisticsOf(ts) ==
    IF impl = "ai_services" THEN calculate_statistics(ts)
    ELSE Svc_calculate_statistics(ts)

NumericFields ==
    {"total_trades", "winning_trades", "losing_trades", "win_rate",
     "total_profit_loss", "average_profit", "average_loss", "largest_win",
     "largest_loss", "average_trade_duration_hours"}

(* C9 as stated: for every trade list and every permutation of it the two  *)
(* snapshots are equal field by field, the most-traded fields included.    *)
C9_OrderIndependent ==
    Called("calculate_statistics") =>
        \A p \in PermutationsOf(trades) : StatisticsOf(p) = stats

(* C9 amended: for every trade list and every permutation of it the two    *)
(* snapshots agree on every numeric field, and on most_traded_symbol       *)
(* (most_traded_contract_type) whenever a single symbol (contract type)    *)
(* has the maximal count.                                                  *)
C9_OrderIndependentUpToTies ==
    Called("calculate_statistics") =>
        \A p \in PermutationsOf(trades) :
            LET other == StatisticsOf(p)
            IN  /\ \A f \in NumericFields : other[f] = stats[f]
                /\ trades # <<>> /\ HasUniqueMaximum(SymbolKeys(trades)) =>
                       other.most_traded_symbol = stats.most_traded_symbol
                /\ trades # <<>> /\ HasUniqueMaximum(ContractKeys(trades)) =>
                       other.most_traded_contract_type = stats.most_traded_contract_type

(* three trades of two symbols and distinct P/Ls, the majority symbol not  *)
(* in front                                                                *)
C9_Witness ==
    /\ Called("calculate_statistics")
    /\ Len(trades) = 3
    /\ HasUniqueMaximum(SymbolKeys(trades))
    /\ stats.most_traded_symbol # SymbolKeys(trades)[1]
    /\ stats.winning_trades = 2
    /\ stats.losing_trades = 1

-----------------------------------------------------------------------------
(* Overtrading.                                                            *)

PurchaseTimes == [i \in 1..Len(trades) |-> Val(trades[i].purchase_time)]

WholeDays == (MaxSeq(PurchaseTimes) - MinSeq(PurchaseTimes)) \div MinutesPerDay

DateRangeDays == IF WholeDays > 1 THEN WholeDays ELSE 1

TradesPerDay == Frac(Len(trades), DateRangeDays)

(* C11: Overtrading on n >= 2 trades divides n by dateRangeDays = max(1,   *)
(* whole days between the earliest and the latest purchaseTime), which is  *)
(* never zero; detected = tradesPerDay > 10, confidence =                  *)
(* min(tradesPerDay / 20, 1); 11 trades within a single day are detected   *)
(* with confidence 0.55, 10 trades within a single day are not detected.   *)
C11_Overtrading ==
    Called("detect_patterns") /\ Len(trades) >= 2 =>
        /\ patterns[2].pattern = OVERTRADING
        /\ patterns[2].details.args = <<RoundInt(TradesPerDay, 10), DateRangeDays>>
        /\ patterns[2].details.args[2] >= 1
        /\ patterns[2].detected = FLess(FInt(10), TradesPerDay)
        /\ patterns[2].confidence = FMin(FDiv(TradesPerDay, FInt(20)), One)
        /\ (Len(trades) = 11 /\ WholeDays = 0 =>
               patterns[2].detected /\ patterns[2].confidence = Frac(55, 100))
        /\ (Len(trades) = 10 /\ WholeDays = 0 => ~patterns[2].detected)

(* eleven trades within 24 hours, not all at the same minute *)
C11_Witness ==
    /\ Called("detect_patterns")
    /\ Len(trades) = 11
    /\ WholeDays = 0
    /\ MaxSeq(PurchaseTimes) > MinSeq(PurchaseTimes)
    /\ patterns[2].detected
    /\ patterns[2].confidence = Frac(55, 100)

-----------------------------------------------------------------------------
(* Consistent timing.                                                      *)

HourOfDay(tm) == (tm % MinutesPerDay) \div MinutesPerHour

PurchaseHours == {HourOfDay(Val(trades[i].purchase_time)) : i \in 1..Len(trades)}

(* C12: ConsistentTiming on at least 5 trades whose purchaseTime hours of   *)
(* day are all identical reports standard deviation 0, detected = true and *)
(* confidence exactly 1.0.                                                 *)
C12_IdenticalHours ==
    Called("detect_patterns") /\ Len(trades) >= 5 /\ Cardinality(PurchaseHours) = 1 =>
        /\ patterns[3].pattern = CONSISTENT_TIMING
        /\ patterns[3].detected
        /\ patterns[3].confidence = One
        /\ patterns[3].details =
               [text |-> "Trading hour standard deviation: {:.1f}. Consistent trading times.",
                args |-> <<0>>]

(* five trades in the hour from 09:00, on different days and minutes *)
C12_Witness ==
    /\ Called("detect_patterns")
    /\ Len(trades) >= 5
    /\ Cardinality(PurchaseHours) = 1
    /\ Cardinality({trades[i].purchase_time : i \in 1..Len(trades)}) = 3
    /\ patterns[3].detected
    /\ patterns[3].confidence = One

-----------------------------------------------------------------------------
(* Confidence range and determinism.                                       *)

(* C13: every PatternDetectionResult of the four heuristics, for any trade *)
(* list, has 0 <= confidence <= 1.                                         *)
C13_ConfidenceInUnitInterval ==
    Called("detect_patterns") =>
        \A i \in 1..Len(patterns) :
            /\ ~FLess(patterns[i].confidence, Zero)
            /\ ~FLess(One, patterns[i].confidence)

(* C14: detect_patterns is deterministic and idempotent: once it has       *)
(* returned for a list, any later call on the same unmodified list returns *)
(* equal results in every position, whatever the time of the call and     *)
(* whatever was called in between.                                         *)
C14_Deterministic ==
    [][Called("detect_patterns") /\ trades' = trades => patterns' = patterns]_vars

-----------------------------------------------------------------------------
(* Frame.                                                                  *)

(* C15: calculate_win_rate, calculate_statistics and detect_patterns leave *)
(* their input unchanged: after each call the caller's list has the same   *)
(* length, the same element order and the same field values as before.     *)
C15_InputUnchanged == [][trades' = trades]_vars

(* all three functions have returned for a list that was not handed in in  *)
(* chronological order, and the list is still in the caller's order        *)
C15_Witness ==
    /\ calls = {"calculate_win_rate", "calculate_statistics", "detect_patterns"}
    /\ Len(trades) >= 2
    /\ trades # SortByPurchaseTime(trades)

-----------------------------------------------------------------------------
(* format_duration.                                                        *)

FloorOf(a) == a.n \div a.d

Minutes(m) == [text |-> "{} minutes", args |-> <<m>>]

HoursTenths(k) == [text |-> "{:.1f} hours", args |-> <<k>>]

DaysTenths(k) == [text |-> "{:.1f} days", args |-> <<k>>]

FormattedAs(h) ==
    IF FLess(h, One) THEN Minutes(FloorOf(FMul(h, FInt(60))))
    ELSE IF FLess(h, FInt(24)) THEN HoursTenths(RoundInt(h, 10))
    ELSE DaysTenths(RoundInt(FDiv(h, FInt(24)), 10))

Attempted(f) == f \in calls \/ f \in raised

(* C16: formatDuration selects its unit by the thresholds 1 and 24, the    *)
(* boundary values going to the larger unit: hours < 1 gives               *)
(* "<floor(hours*60)> minutes", 1 <= hours < 24 gives hours with one       *)
(* decimal, hours >= 24 gives hours/24 days with one decimal; so 0.5 ->    *)
(* "30 minutes", 2.5 -> "2.5 hours", 48 -> "2.0 days".                     *)
C16_FormatDuration ==
    Attempted("format_duration") =>
        /\ formatted = Some(FormattedAs(duration))
        /\ (duration = Frac(1, 2) => formatted = Some(Minutes(30)))
        /\ (duration = Frac(5, 2) => formatted = Some(HoursTenths(25)))
        /\ (duration = FInt(48) => formatted = Some(DaysTenths(20)))
        /\ (duration = FInt(1) => formatted = Some(HoursTenths(10)))
        /\ (duration = FInt(24) => formatted = Some(DaysTenths(10)))

-----------------------------------------------------------------------------
(* Missing and null optional fields.                                       *)

(* C17: for any trade list in which any of sellPrice, profitLoss, sellTime *)
(* is absent or null on any trade, and for the empty list,                 *)
(* calculate_win_rate, calculate_statistics and detect_patterns never      *)
(* raise and each returns a fully formed result.                           *)
C17_NeverRaises ==
    /\ raised \cap {"calculate_win_rate", "calculate_statistics", "detect_patterns"} = {}
    /\ Called("calculate_statistics") => stats.total_trades = Len(trades)
    /\ Called("detect_patterns") /\ trades # <<>> => PatternsOf(patterns) = FourInOrder

-----------------------------------------------------------------------------
(* Largest win and largest loss.                                           *)

(* C18: largestWin is the maximum of the strictly positive derived P/Ls,   *)
(* largestLoss the minimum (signed) of the strictly negative derived P/Ls, *)
(* each 0.0 when its bucket is empty; so largestLoss <= averageLoss <= 0   *)
(* <= averageProfit <= largestWin in every snapshot.                       *)
C18_LargestWinAndLoss ==
    Called("calculate_statistics") =>
        /\ stats.largest_win =
               IF Wins(trades) = <<>> THEN Zero ELSE FInt(MaxSeq(Wins(trades)))
        /\ stats.largest_loss =
               IF Losses(trades) = <<>> THEN Zero ELSE FInt(MinSeq(Losses(trades)))
        /\ ~FLess(stats.average_loss, stats.largest_loss)
        /\ ~FLess(Zero, stats.average_loss)
        /\ ~FLess(stats.average_profit, Zero)
        /\ ~FLess(stats.largest_win, stats.average_profit)

-----------------------------------------------------------------------------
(* Revenge trading.                                                        *)

ByTime == SortByPurchaseTime(trades)

TimeAt(i) == Val(ByTime[i].purchase_time)

LossAt(i) == DerivedPL(ByTime[i]) < 0

(* pairs (prev, curr) with prev a loss and curr less than 30 minutes later *)
RapidCount ==
    Cardinality({i \in 2..Len(ByTime) : LossAt(i - 1) /\ TimeAt(i) - TimeAt(i - 1) < 30})

(* the longest run of losses among the trades that have a successor *)
MaxConsecutiveLosses ==
    LET n    == Len(ByTime)
        runs == {k \in 0..(n - 1) :
                   \E i \in 1..(n - k) : \A j \in i..(i + k - 1) : LossAt(j)}
    IN  CHOOSE k \in runs : \A j \in runs : j <= k

(* C20: RevengeTrading on n >= 3 time-sorted trades walks the adjacent     *)
(* pairs (prev, curr): when prev's derived P/L is negative the run of      *)
(* consecutive losses grows, its maximum is kept, and the pair is rapid    *)
(* iff curr was bought less than 30 minutes after prev (exactly 30 is not  *)
(* rapid); otherwise the run restarts.  detected = (rapidCount/(n-1) >     *)
(* 0.25) or (maxConsecutiveLosses >= 3), confidence =                      *)
(* min(2.5 * rapidCount/(n-1), 1).                                         *)
C20_RevengeWalk ==
    Called("detect_patterns") /\ Len(trades) >= 3 =>
        LET n == Len(trades)
        IN  /\ patterns[1].pattern = REVENGE_TRADING
            /\ patterns[1].details.args = <<RapidCount, MaxConsecutiveLosses>>
            /\ patterns[1].detected =
                   (4 * RapidCount > n - 1 \/ MaxConsecutiveLosses >= 3)
            /\ patterns[1].confidence = FMin(Frac(5 * RapidCount, 2 * (n - 1)), One)

-----------------------------------------------------------------------------
(* Chat sessions.                                                          *)

Stored(id) == id \in DOMAIN sessions

LastCall(op, id) == last_op.op = op /\ last_op.session_id = id

(* C19: clear_session(id) returns True exactly when a session with that id *)
(* is stored at the time of the call, and removes it; immediately          *)
(* afterwards a second clear_session(id) returns False and                 *)
(* get_session_history(id) returns an empty list; no other session is      *)
(* affected.                                                               *)
C19_ClearSession ==
    [][\A id \in SessionIds :
         /\ LastCall("clear_session", id)' =>
                /\ last_op'.result = Stored(id)
                /\ DOMAIN sessions' = DOMAIN sessions \ {id}
                /\ \A other \in DOMAIN sessions' : sessions'[other] = sessions[other]
                /\ session_objects' = session_objects
         /\ LastCall("clear_session", id) /\ LastCall("clear_session", id)' =>
                last_op'.result = FALSE
         /\ LastCall("clear_session", id) /\ LastCall("get_session_history", id)' =>
                last_op'.messages = <<>>
      ]_vars

(* a session that has messages was cleared, and another session is still   *)
(* stored with its messages                                                *)
C19_Witness ==
    /\ last_op.op = "clear_session"
    /\ last_op.result
    /\ \E k \in 1..Len(session_objects) :
           /\ session_objects[k].session_id = last_op.session_id
           /\ session_objects[k].messages # <<>>
    /\ \E other \in DOMAIN sessions : session_objects[sessions[other]].messages # <<>>

-----------------------------------------------------------------------------
(* Consistent timing: the spread of the hours.                             *)

HourList == [i \in 1..Len(trades) |-> HourOfDay(Val(trades[i].purchase_time))]

(* the sample variance of the hours: the squared distances from the mean,  *)
(* summed and divided by n - 1                                             *)
HourVariance ==
    LET n     == Len(HourList)
        total == SumSeq(HourList)
        dist  == [i \in 1..n |-> (n * HourList[i] - total) * (n * HourList[i] - total)]
    IN  Frac(SumSeq(dist), n * n * (n - 1))

(* c = max(0, 1 - sqrt(v) / 6) *)
IsTimingConfidence(c, v) ==
    IF ~FLess(v, FInt(36)) THEN c = Zero
    ELSE /\ ~FLess(c, Zero)
         /\ ~FLess(One, c)
         /\ 36 * (c.d - c.n) * (c.d - c.n) * v.d = v.n * c.d * c.d

(* c is a whole number of hundredths, at most half a hundredth away from   *)
(* max(0, 1 - sqrt(v) / 6)                                                 *)
IsRoundedTimingConfidence(c, v) ==
    \E k \in 0..100 :
        /\ c = Frac(k, 100)
        /\ k = 0 \/ 40000 * v.n <= 36 * (201 - 2 * k) * (201 - 2 * k) * v.d
        /\ k = 100 \/ 40000 * v.n >= 36 * (199 - 2 * k) * (199 - 2 * k) * v.d

(* C21 as stated: ConsistentTiming on n >= 5 trades is detected exactly    *)
(* when the sample standard deviation of the purchaseTime hours of day is  *)
(* strictly below 3 (sample variance < 9), and its confidence is           *)
(* max(0, 1 - stdDev/6), which is 0 whenever stdDev >= 6.                  *)
C21_ExactConfidence ==
    Called("detect_patterns") /\ Len(trades) >= 5 =>
        /\ patterns[3].detected = FLess(HourVariance, FInt(9))
        /\ IsTimingConfidence(patterns[3].confidence, HourVariance)

(* C21 amended: ConsistentTiming on n >= 5 trades is detected exactly when *)
(* the sample standard deviation of the purchaseTime hours of day is       *)
(* strictly below 3 (sample variance < 9), and its confidence is           *)
(* max(0, 1 - stdDev/6) rounded to 2 decimals, which is 0 whenever         *)
(* stdDev >= 6.                                                            *)
C21_RoundedConfidence ==
    Called("detect_patterns") /\ Len(trades) >= 5 =>
        /\ patterns[3].pattern = CONSISTENT_TIMING
        /\ patterns[3].detected = FLess(HourVariance, FInt(9))
        /\ IsRoundedTimingConfidence(patterns[3].confidence, HourVariance)
        /\ (~FLess(HourVariance, FInt(36)) => patterns[3].confidence = Zero)

(* hours whose standard deviation lies between 3 and 6: not detected, with *)
(* a confidence that is neither 0 nor the unrounded value                  *)
C21_Witness ==
    /\ Called("detect_patterns")
    /\ Len(trades) >= 5
    /\ ~FLess(HourVariance, FInt(9))
    /\ FLess(HourVariance, FInt(36))
    /\ ~patterns[3].detected
    /\ FLess(Zero, patterns[3].confidence)
    /\ ~IsTimingConfidence(patterns[3].confidence, HourVariance)

-----------------------------------------------------------------------------
(* Missing purchase times.                                                 *)

PatternsFor(ts, now) ==
    IF impl = "ai_services" THEN detect_patterns(ts, now) ELSE Svc_detect_patterns(ts, now)

(* the list with the minimum timestamp written into every trade that has   *)
(* no purchase_time                                                        *)
WithMinimumTimes(ts) ==
    [i \in 1..Len(ts) |->
        [ts[i] EXCEPT !.purchase_time = IF Has(@) THEN @ ELSE <<0>>]]

TimeOrMinimum(t) == IF Has(t.purchase_time) THEN Val(t.purchase_time) ELSE 0

IsAscending(ts) ==
    \A i \in 1..Len(ts) : \A j \in i..Len(ts) : TimeOrMinimum(ts[i]) <= TimeOrMinimum(ts[j])

(* C22: detect_patterns orders the trades ascending by purchaseTime before *)
(* any sub-detector runs, and each of the four sub-detectors treats a      *)
(* trade without purchaseTime as bought at the minimum timestamp, the      *)
(* value the sort uses: the four results are those of the list in which    *)
(* the minimum timestamp is written into every such trade.                 *)
C22_MissingTimeIsMinimum ==
    Called("detect_patterns") /\ trades # <<>> =>
        /\ IsAscending(sorted_by_purchase_time(trades).sorted_trades)
        /\ \A now \in Nows : \A i \in 1..4 :
               /\ patterns[i].pattern = PatternsFor(WithMinimumTimes(trades), now)[i].pattern
               /\ patterns[i].detected = PatternsFor(WithMinimumTimes(trades), now)[i].detected
               /\ patterns[i].confidence = PatternsFor(WithMinimumTimes(trades), now)[i].confidence

-----------------------------------------------------------------------------
(* Average trade duration.                                                 *)

HasBothTimes(t) == Len(t.sell_time) = 1 /\ Len(t.purchase_time) = 1

Timed == SelectSeq(trades, HasBothTimes)

HeldMinutes == [i \in 1..Len(Timed) |-> Timed[i].sell_time[1] - Timed[i].purchase_time[1]]

(* the mean holding time in hours, 0 when no trade has both timestamps *)
MeanHeldHours ==
    IF Timed = <<>> THEN Zero ELSE Frac(SumSeq(HeldMinutes), 60 * Len(Timed))

(* c is a whole number of hundredths, at most half a hundredth from x *)
IsRoundedTo2(c, x) ==
    /\ c.d \in {1, 2, 4, 5, 10, 20, 25, 50, 100}
    /\ 200 * Abs(c.n * x.d - x.n * c.d) <= c.d * x.d

(* C23 as stated: averageTradeDurationHours is the mean of                 *)
(* (sellTime - purchaseTime) in hours over exactly the trades that have    *)
(* both timestamps, 0.0 when no trade has both; trades lacking sellTime    *)
(* change neither the numerator nor the denominator.                       *)
C23_MeanDuration ==
    Called("calculate_statistics") =>
        /\ stats.average_trade_duration_hours = MeanHeldHours
        /\ stats.average_trade_duration_hours =
               StatisticsOf(Timed).average_trade_duration_hours

(* C23 amended: averageTradeDurationHours is the mean of                   *)
(* (sellTime - purchaseTime) in hours over exactly the trades that have    *)
(* both timestamps, rounded to 2 decimals, and 0.0 when no trade has both; *)
(* trades lacking sellTime change neither the numerator nor the            *)
(* denominator.                                                            *)
C23_RoundedMeanDuration ==
    Called("calculate_statistics") =>
        /\ IsRoundedTo2(stats.average_trade_duration_hours, MeanHeldHours)
        /\ (Timed = <<>> => stats.average_trade_duration_hours = Zero)
        /\ stats.average_trade_duration_hours =
               StatisticsOf(Timed).average_trade_duration_hours

(* three trades with both timestamps and a mean of 70 minutes, next to an  *)
(* open trade                                                              *)
C23_Witness ==
    /\ Called("calculate_statistics")
    /\ Len(Timed) = 3
    /\ Len(trades) = 4
    /\ MeanHeldHours = Frac(7, 6)
    /\ stats.average_trade_duration_hours = Frac(117, 100)

-----------------------------------------------------------------------------
(* The two implementations.                                                *)

AllFieldsPresent(t) ==
    /\ \A f \in DOMAIN t : Len(t[f]) = 1
    /\ t.profit_loss[1] = t.sell_price[1] - t.buy_price[1]

(* what the implementation that was not called returns for the list *)
OtherPatternsFor(ts, now) ==
    IF impl = "ai_services" THEN Svc_detect_patterns(ts, now) ELSE detect_patterns(ts, now)

(* C24: for every trade list in which all fields are present and           *)
(* profit_loss = sell_price - buy_price on each trade,                     *)
(* ai_services.analysis.detect_patterns and AnalysisService.detect_patterns *)
(* return, position by position, the same pattern, detected flag and       *)
(* confidence.                                                             *)
C24_ImplementationsAgree ==
    Called("detect_patterns") /\ (\A i \in 1..Len(trades) : AllFieldsPresent(trades[i])) =>
        \A now \in Nows :
            /\ Len(patterns) = Len(OtherPatternsFor(trades, now))
            /\ \A i \in 1..Len(patterns) :
                   /\ patterns[i].pattern = OtherPatternsFor(trades, now)[i].pattern
                   /\ patterns[i].detected = OtherPatternsFor(trades, now)[i].detected
                   /\ patterns[i].confidence = OtherPatternsFor(trades, now)[i].confidence

(* the first three positions agree *)
C24_AgreeButRisk ==
    Called("detect_patterns") /\ (\A i \in 1..Len(trades) : AllFieldsPresent(trades[i])) =>
        \A now \in Nows :
            /\ Len(patterns) = Len(OtherPatternsFor(trades, now))
            /\ \A i \in 1..Len(patterns) :
                   /\ patterns[i].pattern = OtherPatternsFor(trades, now)[i].pattern
                   /\ i < 4 => patterns[i].detected = OtherPatternsFor(trades, now)[i].detected
                   /\ i < 4 => patterns[i].confidence = OtherPatternsFor(trades, now)[i].confidence

-----------------------------------------------------------------------------
(* Detected results and their confidence.                                  *)

-----------------------------------------------------------------------------
(* Order of the input.                                                     *)

DistinctTimes(ts) ==
    \A i \in 1..Len(ts) :
        /\ Len(ts[i].purchase_time) = 1
        /\ \A j \in 1..Len(ts) : ts[i].purchase_time = ts[j].purchase_time => i = j

BoughtAt(ts, tm) == SelectSeq(ts, LAMBDA t : TimeOrMinimum(t) = tm)

(* sorted holds the trades of ts in ascending order of time, those bought  *)
(* at the same time in the order ts has them                               *)
IsStablySorted(sorted, ts) ==
    /\ Len(sorted) = Len(ts)
    /\ IsAscending(sorted)
    /\ \A i \in 1..Len(ts) :
           BoughtAt(sorted, TimeOrMinimum(ts[i])) = BoughtAt(ts, TimeOrMinimum(ts[i]))

(* C26: detect_patterns does not depend on the order in which the caller   *)
(* supplies the trades: for every trade list whose purchaseTimes are       *)
(* pairwise distinct and every permutation of it the four results are      *)
(* equal; trades with equal purchaseTimes keep their input order in the    *)
(* stable sort, and the results depend on the input order only through     *)
(* the sorted list.                                                        *)
C26_OrderIndependentDetection ==
    Called("detect_patterns") =>
        /\ DistinctTimes(trades) =>
               \A p \in PermutationsOf(trades) : \A now \in Nows :
                   PatternsFor(p, now) = patterns
        /\ IsStablySorted(sorted_by_purchase_time(trades).sorted_trades, trades)
        /\ \A now \in Nows :
               PatternsFor(sorted_by_purchase_time(trades).sorted_trades, now) = patterns

(* five trades bought at different times, handed in out of order, with     *)
(* revenge trading detected                                                *)
C26_Witness ==
    /\ Called("detect_patterns")
    /\ Len(trades) = 5
    /\ DistinctTimes(trades)
    /\ trades # SortByPurchaseTime(trades)
    /\ patterns[1].detected
    /\ patterns[3].detected

-----------------------------------------------------------------------------
(* The last trade of the revenge walk.                                     *)

(* a closed trade's P/L set to pl: profit_loss and the sell price *)
WithPL(t, pl) ==
    [t EXCEPT !.profit_loss = <<pl>>, !.sell_price = <<t.buy_price[1] + pl>>]

(* the time-sorted trades, the P/L of the last one changed to pl *)
LastChangedTo(pl) == [ByTime EXCEPT ![Len(ByTime)] = WithPL(@, pl)]

AllLosses == \A i \in 1..Len(trades) : DerivedPL(trades[i]) < 0

(* C27: in RevengeTrading the derived P/L of the chronologically last      *)
(* trade never influences the result: changing only that value leaves      *)
(* detected and confidence unchanged, so maxConsecutiveLosses <= n - 1,    *)
(* and exactly three trades that are all losses are detected only through  *)
(* the rapid-trade ratio, never through the consecutive-loss criterion.    *)
C27_LastPLIgnored ==
    Called("detect_patterns") /\ Len(trades) >= 3 =>
        /\ \A pl \in {-50, 0, 50} : \A now \in Nows :
               /\ PatternsFor(LastChangedTo(pl), now)[1].detected = patterns[1].detected
               /\ PatternsFor(LastChangedTo(pl), now)[1].confidence = patterns[1].confidence
        /\ patterns[1].details.args[2] <= Len(trades) - 1
        /\ Len(trades) = 3 /\ AllLosses =>
               /\ patterns[1].details.args[2] = 2
               /\ patterns[1].detected = (4 * patterns[1].details.args[1] > 2)

(* three losses an hour apart: two consecutive losses are counted, and     *)
(* revenge trading is not detected                                         *)
C27_Witness ==
    /\ Called("detect_patterns")
    /\ Len(trades) = 3
    /\ AllLosses
    /\ patterns[1].details.args = <<0, 2>>
    /\ ~patterns[1].detected

-----------------------------------------------------------------------------
(* Win rate and counts of one snapshot.                                    *)

(* C28: in every snapshot returned by calculate_statistics for a non-empty *)
(* list, win_rate = 100 * winning_trades / total_trades: the win-rate      *)
(* computation counts a trade as a win exactly when the profit bucket      *)
(* holds it.                                                               *)
C28_WinRateMatchesCounts ==
    Called("calculate_statistics") /\ trades # <<>> =>
        /\ stats.total_trades = Len(trades)
        /\ stats.win_rate = Frac(100 * stats.winning_trades, stats.total_trades)
        /\ stats.win_rate.n * stats.total_trades = 100 * stats.winning_trades * stats.win_rate.d

(* a snapshot with a win, a loss, a trade with P/L 0 and a trade without   *)
(* profit_loss                                                             *)
C28_Witness ==
    /\ Called("calculate_statistics")
    /\ Len(trades) = 4
    /\ stats.winning_trades >= 1
    /\ stats.losing_trades >= 1
    /\ \E i \in 1..Len(trades) : trades[i].profit_loss = <<0>>
    /\ \E i \in 1..Len(trades) : trades[i].profit_loss = <<>>
    /\ stats.win_rate \in {Frac(25, 1), Frac(50, 1)}

-----------------------------------------------------------------------------
(* Chat histories.                                                         *)

RolesOf(session) == [i \in 1..Len(session.messages) |-> session.messages[i].role]

CountRole(session, role) ==
    Cardinality({i \in 1..Len(session.messages) : session.messages[i].role = role})

(* chat calls on the k-th ChatSession that wait for the model's reply *)
AwaitingOn(k) == Cardinality({i \in 1..Len(pending) : pending[i].session = k})

(* every chat call has added one user message, and one assistant message   *)
(* once it has completed, whichever path answered it                       *)
C29_OneUserOneAssistant ==
    \A k \in 1..Len(session_objects) :
        CountRole(session_objects[k], "user") =
            CountRole(session_objects[k], "assistant") + AwaitingOn(k)

(* C29: after any interleaving of chat calls on one session, two calls     *)
(* that overlap while awaiting the reply included, the session's history   *)
(* strictly alternates user, assistant, user, assistant ... starting with  *)
(* user, and each completed chat call has added exactly one user message   *)
(* and one assistant message (quick response, reply or fallback).          *)
C29_AlternatingHistory ==
    /\ C29_OneUserOneAssistant
    /\ \A k \in 1..Len(session_objects) :
           \A i \in 1..Len(session_objects[k].messages) :
               RolesOf(session_objects[k])[i] = IF i % 2 = 1 THEN "user" ELSE "assistant"

-----------------------------------------------------------------------------
(* Sessions and their users.                                               *)

(* C30: the session returned by get_or_create_session(session_id, user_id) *)
(* always has user_id equal to the user_id passed in that call, after any  *)
(* sequence of get_or_create_session, chat and clear_session calls by      *)
(* different users; and a chat call of one user never appends to a session *)
(* created by another user.                                                *)
C30_SessionOfCaller ==
    /\ [](last_op.op = "get_or_create_session" =>
             session_objects[last_op.session].user_id = last_op.user_id)
    /\ [][\A k \in 1..Len(session_objects) :
             session_objects'[k].messages # session_objects[k].messages =>
                 last_op'.user_id = session_objects[k].user_id]_vars

====
